---- MODULE Spec2Model ----
(***************************************************************************)
(* A model of BldsClient (src/src/blds-client.cc): the length-prefixed     *)
(* frame reader handleReadyRead, the dispatcher handleMessage with its     *)
(* response handlers, and the request encoders get() and set().            *)
(*                                                                         *)
(* Representation.                                                         *)
(*   byte        a number in 0..255; a QByteArray is a sequence of bytes.   *)
(*   QString     a sequence of UTF-16 code units (0..65535).               *)
(*   quint32     a pair <<hi, lo>> of 16-bit halves, value hi*65536 + lo,   *)
(*               so that arithmetic modulo 2^32 stays exact (TLC's integers  *)
(*               are 32-bit signed).                                       *)
(*   event       [kind, param, success, vtype, value]: the emitted signal,  *)
(*               its QString parameter name (<<>> when the signal has       *)
(*               none), its success flag (FALSE when it has none), and its  *)
(*               payload: vtype names the active QVariant alternative and   *)
(*               value holds it as a sequence (code units of a QString,     *)
(*               <<hi, lo>> of a quint32 or of a float's bit pattern,       *)
(*               <<0>> or <<1>> of a bool, the raw bytes handed to an       *)
(*               external codec).                                          *)
(* The host is taken to be little-endian with a 64-bit size_t (LP64).      *)
(***************************************************************************)
EXTENDS Integers, Sequences, FiniteSets, TLC

VARIABLES
    sock,       \* m_socket's read buffer: bytes received and not yet read
    net,        \* bytes the server has written that have not arrived yet
    out,        \* bytes the client has written that the server has not read
    events,     \* every signal emitted so far, in order
    log,        \* one entry per handleMessage call (history)
    served,     \* the frames the server has written, in order (history)
    delivered,  \* number of bytes that have arrived so far (history)
    requests,   \* the commands the caller has issued, in order (history)
    store,      \* the server's parameter store: name -> payload bytes
    state,      \* m_socket->state(): "Unconnected", "Connecting" (host lookup
                \* included), "Connected" or "Closing"
    pendingClose,   \* the socket is to close as soon as it connects
    onConnected,    \* number of slots connected to m_socket's connected()
    onError,        \* the slots connected to m_socket's error(), in order
    onDisconnected, \* number of slots connected to m_socket's disconnected()
    calls,      \* number of connect() and disconnect() calls made (history)
    discarded,  \* number of buffered bytes connectToHost() has dropped (history)
    status,     \* m_stream.status(): "Ok", "ReadPastEnd" or "WriteFailed"
    sourceActive,   \* whether the server holds a data source
    replies,    \* the QNetworkReply objects: id -> [kind, code, body, finished]
    m_serverReply,  \* id of the reply m_serverReply points to, 0 for none
    m_sourceReply   \* id of the reply m_sourceReply points to, 0 for none

\* the variables of the connection, of the HTTP side channel, and all
conn == <<state, pendingClose, onConnected, onError, onDisconnected, calls,
          discarded>>
http == <<replies, m_serverReply, m_sourceReply>>
vars == <<sock, net, out, events, log, served, delivered, requests, store,
          state, pendingClose, onConnected, onError, onDisconnected, calls,
          discarded, status, sourceActive, replies, m_serverReply, m_sourceReply>>

---------------------------------------------------------------------------
(* Bounds of the model. *)

\* longest error-message text a server frame carries
MaxMsgLen == 4
\* number of frames that follow the frame under test in one stream
MaxFollow == 1
\* number of commands the caller issues in one session
MaxRequests == 2

---------------------------------------------------------------------------
(* String literals of blds-client.cc, as ASCII bytes. *)

\* "\n"
NL == 10

\* "source-created"
Tag_source_created == <<115, 111, 117, 114, 99, 101, 45, 99, 114, 101, 97, 116, 101, 100>>
\* "source-deleted"
Tag_source_deleted == <<115, 111, 117, 114, 99, 101, 45, 100, 101, 108, 101, 116, 101, 100>>
\* "set"
Tag_set == <<115, 101, 116>>
\* "get"
Tag_get == <<103, 101, 116>>
\* "set-source"
Tag_set_source == <<115, 101, 116, 45, 115, 111, 117, 114, 99, 101>>
\* "get-source"
Tag_get_source == <<103, 101, 116, 45, 115, 111, 117, 114, 99, 101>>
\* "recording-started"
Tag_recording_started == <<114, 101, 99, 111, 114, 100, 105, 110, 103, 45, 115, 116, 97, 114, 116, 101, 100>>
\* "recording-stopped"
Tag_recording_stopped == <<114, 101, 99, 111, 114, 100, 105, 110, 103, 45, 115, 116, 111, 112, 112, 101, 100>>
\* "data"
Tag_data == <<100, 97, 116, 97>>
\* "get-all-data"
Tag_get_all_data == <<103, 101, 116, 45, 97, 108, 108, 45, 100, 97, 116, 97>>
\* "error"
Tag_error == <<101, 114, 114, 111, 114>>

\* "save-file"
P_save_file == <<115, 97, 118, 101, 45, 102, 105, 108, 101>>
\* "save-directory"
P_save_directory == <<115, 97, 118, 101, 45, 100, 105, 114, 101, 99, 116, 111, 114, 121>>
\* "source-location"
P_source_location == <<115, 111, 117, 114, 99, 101, 45, 108, 111, 99, 97, 116, 105, 111, 110>>
\* "start-time"
P_start_time == <<115, 116, 97, 114, 116, 45, 116, 105, 109, 101>>
\* "recording-length"
P_recording_length == <<114, 101, 99, 111, 114, 100, 105, 110, 103, 45, 108, 101, 110, 103, 116, 104>>
\* "read-interval"
P_read_interval == <<114, 101, 97, 100, 45, 105, 110, 116, 101, 114, 118, 97, 108>>
\* "recording-position"
P_recording_position == <<114, 101, 99, 111, 114, 100, 105, 110, 103, 45, 112, 111, 115, 105, 116, 105, 111, 110>>
\* "source-exists"
P_source_exists == <<115, 111, 117, 114, 99, 101, 45, 101, 120, 105, 115, 116, 115>>
\* "recording-exists"
P_recording_exists == <<114, 101, 99, 111, 114, 100, 105, 110, 103, 45, 101, 120, 105, 115, 116, 115>>

\* "Received malformed message from BLDS"
MsgMalformed == <<82, 101, 99, 101, 105, 118, 101, 100, 32, 109, 97, 108, 102, 111, 114, 109, 101, 100, 32, 109, 101, 115, 115, 97, 103, 101, 32, 102, 114, 111, 109, 32, 66, 76, 68, 83>>
\* "Unknown message type received from BLDS: "
MsgUnknownType == <<85, 110, 107, 110, 111, 119, 110, 32, 109, 101, 115, 115, 97, 103, 101, 32, 116, 121, 112, 101, 32, 114, 101, 99, 101, 105, 118, 101, 100, 32, 102, 114, 111, 109, 32, 66, 76, 68, 83, 58, 32>>

---------------------------------------------------------------------------
(* quint32 arithmetic. *)

Min(a, b) == IF a < b THEN a ELSE b

\* the quint32 holding the small natural n (n < 2^31)
U32(n) == <<n \div 65536, n % 65536>>

\* size -= n on a quint32: subtraction modulo 2^32
U32Sub(size, n) ==
    IF size[2] >= n % 65536
    THEN <<(size[1] - (n \div 65536)) % 65536, size[2] - (n % 65536)>>
    ELSE <<(size[1] - (n \div 65536) - 1) % 65536, size[2] - (n % 65536) + 65536>>

U32Less(a, b) == a[1] < b[1] \/ (a[1] = b[1] /\ a[2] < b[2])

\* a quint32 read from 4 bytes in host (little-endian) order; missing bytes are 0
ByteAt(d, i) == IF i <= Len(d) THEN d[i] ELSE 0
U32FromBytes(d) ==
    <<ByteAt(d, 3) + 256 * ByteAt(d, 4), ByteAt(d, 1) + 256 * ByteAt(d, 2)>>

\* the 4 bytes of a quint32 in host (little-endian) order
U32ToBytes(v) == <<v[2] % 256, v[2] \div 256, v[1] % 256, v[1] \div 256>>

---------------------------------------------------------------------------
(* QString <-> UTF-8. *)

IsCont(c) == c >= 128 /\ c <= 191

\* QString::fromUtf8(const char*, int): one U+FFFD per byte that starts no
\* valid sequence
RECURSIVE Utf8Decode(_)
Utf8Decode(b) ==
    IF b = <<>> THEN <<>>
    ELSE LET c == b[1]
             n == Len(b)
             cp2 == (c - 192) * 64 + (b[2] - 128)
             cp3 == (c - 224) * 4096 + (b[2] - 128) * 64 + (b[3] - 128)
             cp4 == (c - 240) * 262144 + (b[2] - 128) * 4096
                        + (b[3] - 128) * 64 + (b[4] - 128)
         IN IF c < 128 THEN <<c>> \o Utf8Decode(Tail(b))
            ELSE IF c >= 194 /\ c <= 223 /\ n >= 2 /\ IsCont(b[2])
            THEN <<cp2>> \o Utf8Decode(SubSeq(b, 3, n))
            ELSE IF c >= 224 /\ c <= 239 /\ n >= 3 /\ IsCont(b[2]) /\ IsCont(b[3])
                    /\ cp3 >= 2048 /\ (cp3 < 55296 \/ cp3 > 57343)
            THEN <<cp3>> \o Utf8Decode(SubSeq(b, 4, n))
            ELSE IF c >= 240 /\ c <= 244 /\ n >= 4 /\ IsCont(b[2]) /\ IsCont(b[3])
                    /\ IsCont(b[4]) /\ cp4 >= 65536 /\ cp4 <= 1114111
            THEN <<55296 + ((cp4 - 65536) \div 1024), 56320 + ((cp4 - 65536) % 1024)>>
                     \o Utf8Decode(SubSeq(b, 5, n))
            ELSE <<65533>> \o Utf8Decode(Tail(b))

\* qstrnlen: the bytes before the first NUL
RECURSIVE UpToNul(_)
UpToNul(b) ==
    IF b = <<>> \/ b[1] = 0 THEN <<>> ELSE <<b[1]>> \o UpToNul(Tail(b))

\* QString::fromUtf8(const QByteArray&) and QString(const QByteArray&): both
\* convert qstrnlen(data, size) bytes, so the text ends at the first NUL
FromUtf8(b) == Utf8Decode(UpToNul(b))

\* QString::toUtf8 (a surrogate pair becomes 4 bytes, a lone surrogate '?')
RECURSIVE ToUtf8(_)
ToUtf8(s) ==
    IF s = <<>> THEN <<>>
    ELSE LET u == s[1]
             pair == u >= 55296 /\ u <= 56319 /\ Len(s) >= 2
                        /\ s[2] >= 56320 /\ s[2] <= 57343
             cp == 65536 + (u - 55296) * 1024 + (s[2] - 56320)
         IN IF u < 128 THEN <<u>> \o ToUtf8(Tail(s))
            ELSE IF u < 2048
            THEN <<192 + (u \div 64), 128 + (u % 64)>> \o ToUtf8(Tail(s))
            ELSE IF pair
            THEN <<240 + (cp \div 262144), 128 + ((cp \div 4096) % 64),
                   128 + ((cp \div 64) % 64), 128 + (cp % 64)>>
                     \o ToUtf8(SubSeq(s, 3, Len(s)))
            ELSE IF u >= 55296 /\ u <= 57343 THEN <<63>> \o ToUtf8(Tail(s))
            ELSE <<224 + (u \div 4096), 128 + ((u \div 64) % 64), 128 + (u % 64)>>
                     \o ToUtf8(Tail(s))

\* QString::chop(1), QByteArray::chop(1)
Chop1(s) == IF s = <<>> THEN s ELSE SubSeq(s, 1, Len(s) - 1)

---------------------------------------------------------------------------
(* Reads from the socket's buffer b. Each returns what was read and the   *)
(* buffer that is left. (Intermediate results are passed as operator       *)
(* arguments throughout, one operator per step of the code.)               *)

ReadAt(b, k) == [data |-> SubSeq(b, 1, k), rest |-> SubSeq(b, k + 1, Len(b))]

\* m_socket->read(data, n) for a small count n: at most n bytes, never blocking
ReadN(b, n) == ReadAt(b, Min(n, Len(b)))

\* m_socket->read(size) for a quint32 size
Read(b, size) ==
    ReadAt(b, IF U32Less(U32(Len(b)), size) THEN Len(b)
              ELSE size[1] * 65536 + size[2])

\* m_socket->readLine(): through the first newline, or all that is buffered
ReadLineAt(b, nl) ==
    IF nl = {} THEN ReadAt(b, Len(b))
    ELSE ReadAt(b, CHOOSE i \in nl : \A j \in nl : i <= j)
ReadLine(b) == ReadLineAt(b, {i \in 1..Len(b) : b[i] = NL})

\* m_stream >> success: one byte, nonzero is true; nothing buffered reads false
ReadBool(b) ==
    IF b = <<>> THEN [val |-> FALSE, rest |-> b]
    ELSE [val |-> b[1] # 0, rest |-> Tail(b)]

---------------------------------------------------------------------------
(* Signals. *)

Ev(kind, param, success, vtype, value) ==
    [kind |-> kind, param |-> param, success |-> success,
     vtype |-> vtype, value |-> value]

\* emit error(msg)
ErrorEv(msg) == Ev("error", <<>>, FALSE, "QString", msg)

\* the result of a handler: the signals it emitted and the buffer it left
Handled(evs, rest) == [events |-> evs, sock |-> rest]

---------------------------------------------------------------------------
(* The response handlers. size is the quint32 the caller passes, b the     *)
(* socket's buffer on entry.                                               *)

\* msg = QString::fromUtf8(m_socket->read(size)), r being what was read
ParseMsg(r) == [success |-> FALSE, msg |-> FromUtf8(r.data), sock |-> r.rest]

\* after m_stream >> success (f) and size -= 1 (size1)
ParseFlag(size1, f) ==
    IF f.val THEN [success |-> TRUE, msg |-> <<>>, sock |-> f.rest]
    ELSE ParseMsg(Read(f.rest, size1))

parseSuccessAndStringMessage(size, b) == ParseFlag(U32Sub(size, 1), ReadBool(b))

\* emit <kind>(success, msg)
EmitSimple(kind, p) ==
    Handled(<<Ev(kind, <<>>, p.success, "QString", p.msg)>>, p.sock)

handleCreateSourceResponse(size, b) ==
    EmitSimple("sourceCreated", parseSuccessAndStringMessage(size, b))

handleDeleteSourceResponse(size, b) ==
    EmitSimple("sourceDeleted", parseSuccessAndStringMessage(size, b))

handleStartRecordingResponse(size, b) ==
    EmitSimple("recordingStarted", parseSuccessAndStringMessage(size, b))

handleStopRecordingResponse(size, b) ==
    EmitSimple("recordingStopped", parseSuccessAndStringMessage(size, b))

handleRequestAllDataResponse(size, b) ==
    EmitSimple("requestAllDataResponse", parseSuccessAndStringMessage(size, b))

\* The common opening of the set, get, set-source and get-source handlers:
\* the success flag, size -= 1, the parameter line, size -= param.size()
\* (the QString's length in UTF-16 code units), param.chop(1).
AfterParam(size1, success, param, rest) ==
    [success |-> success, param |-> Chop1(param),
     size |-> U32Sub(size1, Len(param)), sock |-> rest]
AfterLine(size1, success, line) ==
    AfterParam(size1, success, FromUtf8(line.data), line.rest)
AfterFlag(size1, f) == AfterLine(size1, f.val, ReadLine(f.rest))
ReadSuccessAndParam(size, b) == AfterFlag(U32Sub(size, 1), ReadBool(b))

\* emit <kind>(param, success, QString::fromUtf8(m_socket->read(size)))
EmitMsg(kind, h, r) ==
    Handled(<<Ev(kind, h.param, h.success, "QString", FromUtf8(r.data))>>, r.rest)
ReadMsg(kind, h) == EmitMsg(kind, h, Read(h.sock, h.size))

handleSetResponse(size, b) == ReadMsg("setResponse", ReadSuccessAndParam(size, b))

handleSetSourceResponse(size, b) ==
    ReadMsg("setSourceResponse", ReadSuccessAndParam(size, b))

\* datasource::deserialize is an external codec: the event carries the bytes
\* handed to it
EmitSourceData(h, r) ==
    Handled(<<Ev("getSourceResponse", h.param, h.success, "datasource", r.data)>>,
            r.rest)
ReadSourceData(h) == EmitSourceData(h, Read(h.sock, h.size))
handleGetSourceResponse(size, b) == ReadSourceData(ReadSuccessAndParam(size, b))

\* the names handleGetResponse compares param with, as QStrings
Q_text == {FromUtf8(P_save_file), FromUtf8(P_save_directory),
           FromUtf8(P_source_location), FromUtf8(P_start_time)}
Q_uint == {FromUtf8(P_recording_length), FromUtf8(P_read_interval)}
Q_float == {FromUtf8(P_recording_position)}
Q_bool == {FromUtf8(P_source_exists), FromUtf8(P_recording_exists)}

\* the QVariant built from the bytes r read for it. A fixed-width value is
\* read into a zero-initialised variable, so bytes that are not buffered
\* stay 0. A bool read from a byte other than 0 or 1 has no defined value:
\* ub is the outcome the build produces.
TextValue(r) == [vtype |-> "QString", value |-> FromUtf8(r.data), sock |-> r.rest]
UIntValue(r) == [vtype |-> "uint", value |-> U32FromBytes(r.data), sock |-> r.rest]
FloatValue(r) == [vtype |-> "float", value |-> U32FromBytes(r.data), sock |-> r.rest]
BoolValue(r, ub) ==
    [vtype |-> "bool",
     value |-> IF r.data = <<>> THEN <<0>>
               ELSE IF r.data[1] \in {0, 1} THEN r.data
               ELSE IF ub THEN <<1>> ELSE <<0>>,
     sock |-> r.rest]

\* handleGetResponse with "read-interval" left out of the unsigned names, so
\* that it falls through to the text branch
GetValueReadIntervalAsText(param, size, b, ub) ==
    IF param \in Q_text THEN TextValue(Read(b, size))
    ELSE IF param \in Q_uint \ {FromUtf8(P_read_interval)} THEN UIntValue(ReadN(b, 4))
    ELSE IF param \in Q_float THEN FloatValue(ReadN(b, 4))
    ELSE IF param \in Q_bool THEN BoolValue(ReadN(b, 1), ub)
    ELSE TextValue(Read(b, size))

\* the if-chain of handleGetResponse: the value decoded for param from
\* buffer b with size bytes of the frame left
GetValue(param, size, b, ub) ==
    IF param \in Q_text THEN TextValue(Read(b, size))
    ELSE IF param \in Q_uint THEN UIntValue(ReadN(b, 4))
    ELSE IF param \in Q_float THEN FloatValue(ReadN(b, 4))
    ELSE IF param \in Q_bool THEN BoolValue(ReadN(b, 1), ub)
    ELSE TextValue(Read(b, size))

\* emit getResponse(param, success, data)
EmitGet(h, d) ==
    Handled(<<Ev("getResponse", h.param, h.success, d.vtype, d.value)>>, d.sock)
DecodeGet(h, ub) == EmitGet(h, GetValue(h.param, h.size, h.sock, ub))
handleGetResponse(size, b, ub) == DecodeGet(ReadSuccessAndParam(size, b), ub)

\* DataFrame::deserialize is an external codec: the event carries the bytes
\* handed to it
EmitData(r) == Handled(<<Ev("data", <<>>, FALSE, "DataFrame", r.data)>>, r.rest)
handleDataMessage(size, b) == EmitData(Read(b, size))

---------------------------------------------------------------------------
(* handleMessage and handleReadyRead. *)

\* emit error(QString::fromUtf8(m_socket->read(size)))
EmitServerError(r) == Handled(<<ErrorEv(FromUtf8(r.data))>>, r.rest)

\* the unknown-type branch emitting its error without reading the frame's
\* remaining bytes
EmitUnknownTypeUnread(r) ==
    Handled(<<ErrorEv(FromUtf8(MsgUnknownType))>>, r.data \o r.rest)

\* emit error("Unknown message type received from BLDS: " + m_socket->read(size)):
\* the QByteArray sum is converted to the QString
EmitUnknownType(r) == Handled(<<ErrorEv(FromUtf8(MsgUnknownType \o r.data))>>, r.rest)

\* handleMessage with the "set-source" branch calling handleSetResponse
DispatchSetSourceAsSet(type, size, b, ub) ==
    IF type = Tag_source_created THEN handleCreateSourceResponse(size, b)
    ELSE IF type = Tag_source_deleted THEN handleDeleteSourceResponse(size, b)
    ELSE IF type = Tag_set THEN handleSetResponse(size, b)
    ELSE IF type = Tag_get THEN handleGetResponse(size, b, ub)
    ELSE IF type = Tag_set_source THEN handleSetResponse(size, b)
    ELSE IF type = Tag_get_source THEN handleGetSourceResponse(size, b)
    ELSE IF type = Tag_recording_started THEN handleStartRecordingResponse(size, b)
    ELSE IF type = Tag_recording_stopped THEN handleStopRecordingResponse(size, b)
    ELSE IF type = Tag_data THEN handleDataMessage(size, b)
    ELSE IF type = Tag_get_all_data THEN handleRequestAllDataResponse(size, b)
    ELSE IF type = Tag_error THEN EmitServerError(Read(b, size))
    ELSE EmitUnknownType(Read(b, size))

\* the else-if chain of handleMessage on the chopped type
Dispatch(type, size, b, ub) ==
    IF type = Tag_source_created THEN handleCreateSourceResponse(size, b)
    ELSE IF type = Tag_source_deleted THEN handleDeleteSourceResponse(size, b)
    ELSE IF type = Tag_set THEN handleSetResponse(size, b)
    ELSE IF type = Tag_get THEN handleGetResponse(size, b, ub)
    ELSE IF type = Tag_set_source THEN handleSetSourceResponse(size, b)
    ELSE IF type = Tag_get_source THEN handleGetSourceResponse(size, b)
    ELSE IF type = Tag_recording_started THEN handleStartRecordingResponse(size, b)
    ELSE IF type = Tag_recording_stopped THEN handleStopRecordingResponse(size, b)
    ELSE IF type = Tag_data THEN handleDataMessage(size, b)
    ELSE IF type = Tag_get_all_data THEN handleRequestAllDataResponse(size, b)
    ELSE IF type = Tag_error THEN EmitServerError(Read(b, size))
    ELSE EmitUnknownType(Read(b, size))

\* the outcome of handleMessage: line is the type line as read (history)
WithLine(line, h) == [events |-> h.events, sock |-> h.sock, line |-> line]

\* handleMessage after auto type = m_socket->readLine() (t)
MessageOfType(size, t, b, ub) ==
    IF Len(t.data) = 0
    THEN WithLine(t.data, Handled(<<ErrorEv(FromUtf8(MsgMalformed))>>, b))
    ELSE WithLine(t.data,
                  Dispatch(Chop1(t.data), U32Sub(size, Len(t.data)), t.rest, ub))

handleMessage(size, b, ub) == MessageOfType(size, ReadLine(b), b, ub)

\* m_socket->peek(&size, 4) on a buffer of at least 4 bytes
PeekSize(b) == U32FromBytes(SubSeq(b, 1, 4))

\* bytesAvailable() < static_cast<qint64>(size - sizeof(size)): the
\* subtraction is in the 64-bit size_t, so for size < 4 the cast yields a
\* negative number and the comparison is false; bytesAvailable() counts the
\* 4 prefix bytes, which peek() left in the buffer
MessageNotAvailable(b, size) ==
    IF size[1] = 0 /\ size[2] < 4 THEN FALSE
    ELSE U32Less(U32(Len(b)), U32Sub(size, 4))

\* handleReadyRead returning without a (further) message
Idle(b) == [sock |-> b, events |-> <<>>, log |-> <<>>]

\* The log entry of one handleMessage call (history): where in the stream
\* its prefix started, the size it was given, the bytes buffered behind the
\* prefix, the bytes it consumed, the type line it read, the signals it
\* emitted.
Entry(off, size, avail, m) ==
    [start |-> off, size |-> size, avail |-> avail,
     consumed |-> avail - Len(m.sock), line |-> m.line, events |-> m.events]

\* one pass of the loop (entry, m) followed by the remaining passes (more)
Looped(entry, m, more) ==
    [sock |-> more.sock, events |-> m.events \o more.events,
     log |-> <<entry>> \o more.log]

\* handleReadyRead() on buffer b, run to its return. off is the number of
\* stream bytes read before b (history). Returns the buffer left, the
\* signals emitted and one log entry per handleMessage call.
RECURSIVE handleReadyRead(_, _, _)
RECURSIVE AfterMessage(_, _, _, _, _)
\* handleReadyRead() returning after its first message (if for do-while)
AfterMessageReturns(size, avail, m, ub, off) ==
    Looped(Entry(off, size, avail, m), m, Idle(m.sock))

AfterMessage(size, avail, m, ub, off) ==
    Looped(Entry(off, size, avail, m), m,
           handleReadyRead(m.sock, ub, off + 4 + avail - Len(m.sock)))
\* handleReadyRead() going on with a size of which peek() got only a part
ReadyReadOnShortPeek(b, ub, off) ==
    IF b = <<>> THEN Idle(b)
    ELSE IF MessageNotAvailable(b, U32FromBytes(b)) THEN Idle(b)
    ELSE AfterMessage(U32FromBytes(b), Len(b) - 4,
                      handleMessage(U32FromBytes(b), SubSeq(b, 5, Len(b)), ub),
                      ub, off)

handleReadyRead(b, ub, off) ==
    IF Len(b) < 4 THEN Idle(b)
    ELSE IF MessageNotAvailable(b, PeekSize(b)) THEN Idle(b)
    ELSE AfterMessage(PeekSize(b), Len(b) - 4,
                      handleMessage(PeekSize(b), SubSeq(b, 5, Len(b)), ub), ub, off)

---------------------------------------------------------------------------
(* The request encoders. *)

\* m_stream << buffer: QDataStream writes a QByteArray as its quint32 length
\* (little-endian, as set in the constructor) followed by its bytes
StreamByteArray(buffer) == U32ToBytes(U32(Len(buffer))) \o buffer

\* "get\n"
Cmd_get == <<103, 101, 116, 10>>
\* "set\n"
Cmd_set == <<115, 101, 116, 10>>

\* "delete-source\n"
Cmd_delete_source == <<100, 101, 108, 101, 116, 101, 45, 115, 111, 117, 114, 99, 101, 10>>

\* deleteSource(): the bytes written to the socket
deleteSource == StreamByteArray(Cmd_delete_source)

\* get(param): the bytes written to the socket
get(param) == StreamByteArray(Cmd_get \o ToUtf8(param) \o <<NL>>)

\* set() writing the quint32 most significant byte first
SetPayloadBigEndian(param, data) ==
    IF param \in {FromUtf8(P_save_file), FromUtf8(P_save_directory)}
    THEN ToUtf8(data.value)
    ELSE IF param \in {FromUtf8(P_recording_length), FromUtf8(P_read_interval)}
    THEN <<data.value[1] \div 256, data.value[1] % 256,
           data.value[2] \div 256, data.value[2] % 256>>
    ELSE <<>>

\* The bytes set() appends after the parameter line, for data holding a
\* value of the parameter's wire type: data.toByteArray() of a QString is
\* its UTF-8, data.toUInt() of a quint32 is copied in host order, and for
\* every other name nothing is appended.
SetPayload(param, data) ==
    IF param \in {FromUtf8(P_save_file), FromUtf8(P_save_directory)}
    THEN ToUtf8(data.value)
    ELSE IF param \in {FromUtf8(P_recording_length), FromUtf8(P_read_interval)}
    THEN U32ToBytes(data.value)
    ELSE <<>>

\* set(param, data): the bytes written to the socket
set(param, data) ==
    StreamByteArray(Cmd_set \o ToUtf8(param) \o <<NL>> \o SetPayload(param, data))

---------------------------------------------------------------------------
(* The server's side of the wire: the frames a BLDS server writes. A frame *)
(* is described by its body (the bytes after the 4-byte prefix, whose      *)
(* value is always the body's length), the fields the body was built from, *)
(* and how the body relates to a valid one: "ok" (valid), "plus1" (a valid *)
(* body with one byte appended), "minus1" (a valid body with its last byte *)
(* dropped), "novalue" (a get response without its value), "raw" (no       *)
(* response of the protocol). echo is <<>> or <<data>>: the value whose    *)
(* set() payload the server stored and returns.                            *)

FrameRec(tag, success, param, payload, body, shape, echo) ==
    [tag |-> tag, success |-> success, param |-> param, payload |-> payload,
     body |-> body, shape |-> shape, echo |-> echo]

Flag(success) == IF success THEN 1 ELSE 0

\* source-created, source-deleted, recording-started, recording-stopped,
\* get-all-data: the flag, then a message on failure only
SimpleFrame(tag, success, msg) ==
    FrameRec(tag, success, <<>>, msg, tag \o <<NL, Flag(success)>> \o msg, "ok", <<>>)

\* set, set-source, get, get-source: the flag, the parameter line, then a
\* message or a value
ParamFrame(tag, success, param, payload, shape, echo) ==
    FrameRec(tag, success, param, payload,
             tag \o <<NL, Flag(success)>> \o param \o <<NL>> \o payload, shape, echo)

\* data, error, and anything else: the tag line and the remaining bytes
RawFrame(tag, payload, shape) ==
    FrameRec(tag, FALSE, <<>>, payload, tag \o <<NL>> \o payload, shape, <<>>)

\* a frame with one byte appended to, or dropped from, its body
Plus1(f) == [f EXCEPT !.body = @ \o <<120>>, !.shape = "plus1"]
Minus1(f) == [f EXCEPT !.body = Chop1(@), !.shape = "minus1"]

\* the bytes of a frame on the wire
Encode(f) == U32ToBytes(U32(Len(f.body))) \o f.body

RECURSIVE EncodeAll(_)
EncodeAll(fs) == IF fs = <<>> THEN <<>> ELSE Encode(fs[1]) \o EncodeAll(Tail(fs))

---------------------------------------------------------------------------
(* Inputs: the values and frames the model draws from. *)

\* "not valid": error messages are its nonempty prefixes
ErrText == <<110, 111, 116, 32, 118, 97, 108, 105, 100>>
Msgs == {SubSeq(ErrText, 1, n) : n \in 1..MaxMsgLen}

\* "invalid-parameter": a name the client does not know
P_invalid_parameter == <<105, 110, 118, 97, 108, 105, 100, 45, 112, 97, 114, 97, 109, 101, 116, 101, 114>>
\* "gain" and "caf\303\251": source-level parameter names
P_gain == <<103, 97, 105, 110>>
P_cafe == <<99, 97, 102, 195, 169>>
\* "bogus": no response type of the protocol
Tag_bogus == <<98, 111, 103, 117, 115>>

TextParams == {P_save_file, P_save_directory, P_source_location, P_start_time}
UIntParams == {P_recording_length, P_read_interval}
FloatParams == {P_recording_position}
BoolParams == {P_source_exists, P_recording_exists}
KnownParams == TextParams \cup UIntParams \cup FloatParams \cup BoolParams
WritableParams == {P_save_file, P_save_directory, P_recording_length, P_read_interval}

\* values of each wire type: QStrings "", "a", "e-acute" and "a" followed by
\* U+0000; quint32 10, 65538, 2^32 - 1; the floats 1.0 and -2.0 as bit
\* patterns; both booleans
TextValues == {<<>>, <<97>>, <<233>>, <<97, 0>>}
UIntValues == {<<0, 10>>, <<1, 2>>, <<65535, 65535>>}
FloatValues == {<<16256, 0>>, <<49152, 0>>}
BoolValues == {<<0>>, <<1>>}

Data(vtype, value) == [vtype |-> vtype, value |-> value]

\* the QVariants of the wire type of parameter p
ValuesOf(p) ==
    IF p \in TextParams THEN {Data("QString", v) : v \in TextValues}
    ELSE IF p \in UIntParams THEN {Data("uint", v) : v \in UIntValues}
    ELSE IF p \in FloatParams THEN {Data("float", v) : v \in FloatValues}
    ELSE {Data("bool", v) : v \in BoolValues}

\* the server's encoding of a value: UTF-8 text, 4 little-endian bytes, 1 byte
WireBytes(d) ==
    IF d.vtype = "QString" THEN ToUtf8(d.value)
    ELSE IF d.vtype = "bool" THEN d.value
    ELSE U32ToBytes(d.value)

SimpleTags == {Tag_source_created, Tag_source_deleted, Tag_recording_started,
               Tag_recording_stopped, Tag_get_all_data}

SimpleFrames ==
    {SimpleFrame(t, TRUE, <<>>) : t \in SimpleTags}
        \cup {SimpleFrame(t, FALSE, m) : t \in SimpleTags, m \in Msgs}

SetFrames ==
    {ParamFrame(Tag_set, TRUE, P_read_interval, <<>>, "ok", <<>>),
     ParamFrame(Tag_set_source, TRUE, P_gain, <<>>, "ok", <<>>)}
        \cup {ParamFrame(Tag_set, FALSE, P_read_interval, m, "ok", <<>>) : m \in Msgs}
        \cup {ParamFrame(Tag_set_source, FALSE, P_cafe, m, "ok", <<>>) : m \in Msgs}

\* get responses carrying a value in the server's own encoding
GetValueFrames ==
    UNION {{ParamFrame(Tag_get, TRUE, p, WireBytes(d), "ok", <<>>) : d \in ValuesOf(p)} :
              p \in KnownParams \ WritableParams}

\* get responses of a server that stores a set() payload verbatim and
\* returns it: the payload is what set() wrote for the value in echo
EchoShape(p) == IF p \in TextParams \cup UIntParams THEN "ok" ELSE "novalue"
EchoFrames ==
    UNION {{ParamFrame(Tag_get, TRUE, p, SetPayload(FromUtf8(p), d), EchoShape(p), <<d>>) :
               d \in ValuesOf(p)} : p \in KnownParams}

\* failed get responses, and a successful one for a name the client does
\* not know
GetFailFrames ==
    {ParamFrame(Tag_get, FALSE, p, m, "ok", <<>>) :
        p \in KnownParams \cup {P_invalid_parameter}, m \in Msgs}
GetUnknownFrames == {ParamFrame(Tag_get, TRUE, P_invalid_parameter, <<97>>, "ok", <<>>)}

GetSourceFrames ==
    {ParamFrame(Tag_get_source, TRUE, P_gain, <<7, 0>>, "ok", <<>>),
     ParamFrame(Tag_get_source, TRUE, P_cafe, <<7>>, "ok", <<>>)}
        \cup {ParamFrame(Tag_get_source, FALSE, P_gain, m, "ok", <<>>) : m \in Msgs}

OtherFrames ==
    {RawFrame(Tag_data, <<1, 2, 3>>, "ok"),
     FrameRec(<<>>, FALSE, <<>>, <<>>, <<>>, "raw", <<>>)}
        \cup {RawFrame(Tag_error, m, "ok") : m \in Msgs}
        \cup {RawFrame(Tag_bogus, m, "raw") : m \in Msgs}

\* valid frames with one byte appended or dropped
SkewedFrames ==
    {Plus1(SimpleFrame(Tag_source_created, TRUE, <<>>)),
     Minus1(SimpleFrame(Tag_recording_started, TRUE, <<>>)),
     Plus1(ParamFrame(Tag_get, TRUE, P_read_interval, <<10, 0, 0, 0>>, "ok", <<>>)),
     Minus1(ParamFrame(Tag_get, TRUE, P_read_interval, <<10, 0, 0, 0>>, "ok", <<>>))}

Frames ==
    SimpleFrames \cup SetFrames \cup GetValueFrames \cup EchoFrames
        \cup GetFailFrames \cup GetUnknownFrames \cup GetSourceFrames
        \cup OtherFrames \cup SkewedFrames

\* the frames that may follow the frame under test
FollowFrames ==
    {SimpleFrame(Tag_source_deleted, TRUE, <<>>), RawFrame(Tag_error, <<110>>, "ok")}

RECURSIVE SeqsUpTo(_, _)
SeqsUpTo(S, n) ==
    IF n = 0 THEN {<<>>}
    ELSE SeqsUpTo(S, n - 1) \cup {<<x>> \o t : x \in S, t \in SeqsUpTo(S, n - 1)}

\* the stream offset at which frame j of the sequence fs starts
RECURSIVE FrameStart(_, _)
FrameStart(fs, j) ==
    IF j <= 1 THEN 0 ELSE FrameStart(fs, j - 1) + 4 + Len(fs[j - 1].body)

---------------------------------------------------------------------------
(* The server's parameter store. *)

\* the server's defaults: read-interval is 10, save-file is "a"
InitStore == [p \in {P_read_interval, P_save_file} |->
                 IF p = P_read_interval THEN <<10, 0, 0, 0>> ELSE <<97>>]

---------------------------------------------------------------------------
(* Actions. *)

\* the types whose handler starts with m_stream >> success
FlagTags == {Tag_source_created, Tag_source_deleted, Tag_set, Tag_get,
             Tag_set_source, Tag_get_source, Tag_recording_started,
             Tag_recording_stopped, Tag_get_all_data}

\* m_stream >> success found nothing to read in the handleMessage call e:
\* the buffer ended with the type line
ReadPastEnd(e) ==
    /\ Len(e.line) > 0
    /\ Chop1(e.line) \in FlagTags
    /\ e.avail = Len(e.line)

\* QDataStream keeps the first status other than Ok
StatusAfterReads(st, entries) ==
    IF st = "Ok" /\ \E i \in 1..Len(entries) : ReadPastEnd(entries[i])
    THEN "ReadPastEnd" ELSE st

\* k more bytes arrive and the socket signals readyRead: handleReadyRead
\* runs to its return
Returned(r) ==
    /\ sock' = r.sock
    /\ events' = events \o r.events
    /\ log' = log \o r.log
    /\ status' = StatusAfterReads(status, r.log)

Deliver(k, ub) ==
    /\ k \in 1..Len(net)
    /\ Returned(handleReadyRead(sock \o SubSeq(net, 1, k), ub, delivered - Len(sock)))
    /\ net' = SubSeq(net, k + 1, Len(net))
    /\ delivered' = delivered + k
    /\ UNCHANGED <<out, served, requests, store, conn, sourceActive, http>>

---------------------------------------------------------------------------
(* The dispatch specification: the server has written one frame drawn from *)
(* Frames and up to MaxFollow frames after it; a first chunk of any size   *)
(* arrives, then the rest of the stream.                                   *)

\* a client whose connection has been established by one connect(), with
\* nothing written or read yet and no status request made
Established0 ==
    /\ state = "Connected" /\ pendingClose = FALSE
    /\ onConnected = 0 /\ onError = <<"established">> /\ onDisconnected = 0
    /\ calls = 1 /\ discarded = 0 /\ status = "Ok" /\ sourceActive = FALSE
    /\ replies = <<>> /\ m_serverReply = 0 /\ m_sourceReply = 0

InitDispatch ==
    /\ served \in {<<f>> \o t : f \in Frames, t \in SeqsUpTo(FollowFrames, MaxFollow)}
    /\ net = EncodeAll(served)
    /\ sock = <<>>
    /\ out = <<>>
    /\ events = <<>>
    /\ log = <<>>
    /\ delivered = 0
    /\ requests = <<>>
    /\ store = InitStore
    /\ Established0

DeliverFirstOrRest(k, ub) ==
    /\ delivered > 0 => k = Len(net)
    /\ Deliver(k, ub)

NextDispatch == \E k \in 1..Len(net), ub \in BOOLEAN : DeliverFirstOrRest(k, ub)

SpecDispatch == InitDispatch /\ [][NextDispatch]_vars

---------------------------------------------------------------------------
(* A session: the client issues requests without waiting for responses, a *)
(* server answers one command at a time in the order received, and the    *)
(* transport delivers the response stream in chunks of any size.          *)

\* the names and values the session's requests use
SessionGets == {P_read_interval, P_save_file, P_invalid_parameter}
SessionSets == {<<P_read_interval, Data("uint", <<1, 2>>)>>,
                <<P_save_file, Data("QString", <<233>>)>>}

Request(cmd, param) == [cmd |-> cmd, param |-> param]

\* the body of the first request in the bytes o the client has written
FirstRequest(o) == SubSeq(o, 5, 4 + U32FromBytes(o)[2])
AfterFirstRequest(o) == SubSeq(o, 5 + U32FromBytes(o)[2], Len(o))

\* the server's answer: the frame it writes and the store it is left with
Answer(frame, st) == [frame |-> frame, store |-> st]
AnswerGet(p, st) ==
    IF p \in DOMAIN st
    THEN Answer(ParamFrame(Tag_get, TRUE, p, st[p], "ok", <<>>), st)
    ELSE Answer(ParamFrame(Tag_get, FALSE, p, ErrText, "ok", <<>>), st)
AnswerSet(p, payload, st) ==
    IF p \in WritableParams
    THEN Answer(ParamFrame(Tag_set, TRUE, p, <<>>, "ok", <<>>), (p :> payload) @@ st)
    ELSE Answer(ParamFrame(Tag_set, FALSE, p, ErrText, "ok", <<>>), st)
AnswerParam(cmd, name, st) ==
    IF cmd = Cmd_get THEN AnswerGet(Chop1(name.data), st)
    ELSE AnswerSet(Chop1(name.data), name.rest, st)
AnswerCmd(line, st) ==
    IF line.data = Cmd_delete_source
    THEN Answer(SimpleFrame(Tag_source_deleted, TRUE, <<>>), st)
    ELSE AnswerParam(line.data, ReadLine(line.rest), st)
ServerAnswer(body, st) == AnswerCmd(ReadLine(body), st)

\* One transport write of a command: through m_stream, or on m_socket itself.
StreamOp(bytes) == [via |-> "stream", bytes |-> bytes]
SocketOp(bytes) == [via |-> "socket", bytes |-> bytes]

\* the stream's status and the socket's write buffer after a write
Wrote(st, o) == [status |-> st, out |-> o]

\* One write, open telling whether the socket takes bytes (it does unless it
\* is unconnected). m_socket->write() appends or fails; m_stream << x writes
\* nothing once the stream's status is not Ok, and a write the socket
\* refuses sets the status to WriteFailed.
WriteOp(op, w, open) ==
    IF op.via = "socket"
    THEN (IF open THEN Wrote(w.status, w.out \o op.bytes) ELSE w)
    ELSE IF w.status # "Ok" THEN w
    ELSE IF open THEN Wrote("Ok", w.out \o op.bytes)
    ELSE Wrote("WriteFailed", w.out)

RECURSIVE WriteAll(_, _, _)
WriteAll(ops, w, open) ==
    IF ops = <<>> THEN w
    ELSE WriteAll(Tail(ops), WriteOp(ops[1], w, open), open)

\* whether the server holds a data source once it has taken the command
SourceActiveAfter(cmd, active, written) ==
    IF ~written THEN active
    ELSE IF cmd = "createSource" THEN TRUE
    ELSE IF cmd = "deleteSource" THEN FALSE
    ELSE active

\* a command method making the writes ops
Called(ops, req) ==
    /\ Len(requests) < MaxRequests
    /\ requests' = Append(requests, req)
    /\ out' = WriteAll(ops, Wrote(status, out), state # "Unconnected").out
    /\ status' = WriteAll(ops, Wrote(status, out), state # "Unconnected").status
    /\ sourceActive' = SourceActiveAfter(req.cmd, sourceActive, out' # out)
    /\ UNCHANGED <<sock, net, events, log, served, delivered, store, conn, http>>

\* m_stream << buffer
Issued(bytes, req) == Called(<<StreamOp(bytes)>>, req)

Get(p) == Issued(get(FromUtf8(p)), Request("get", FromUtf8(p)))
Set(p, d) == Issued(set(FromUtf8(p), d), Request("set", FromUtf8(p)))
DeleteSource == Issued(deleteSource, Request("deleteSource", <<>>))

Answered(a) ==
    /\ net' = net \o Encode(a.frame)
    /\ served' = Append(served, a.frame)
    /\ store' = a.store

Serve ==
    /\ out # <<>>
    /\ Answered(ServerAnswer(FirstRequest(out), store))
    /\ out' = AfterFirstRequest(out)
    /\ UNCHANGED <<sock, events, log, delivered, requests,
                   conn, status, sourceActive, http>>

Init ==
    /\ sock = <<>> /\ net = <<>> /\ out = <<>>
    /\ events = <<>> /\ log = <<>> /\ served = <<>>
    /\ delivered = 0 /\ requests = <<>>
    /\ store = InitStore
    /\ Established0

Next ==
    \/ \E p \in SessionGets : Get(p)
    \/ \E s \in SessionSets : Set(s[1], s[2])
    \/ DeleteSource
    \/ Serve
    \/ \E k \in 1..Len(net), ub \in BOOLEAN : Deliver(k, ub)

Spec == Init /\ [][Next]_vars

---------------------------------------------------------------------------
(* The connection: connect() and disconnect(), and what the transport     *)
(* (QTcpSocket) does in answer: its state, the signals it emits to the     *)
(* slots connected to them, and its buffers.                               *)

\* number of connect() and disconnect() calls in one run
MaxCalls == 3
\* "Already connected to BLDS"
MsgAlreadyConnected == <<65, 108, 114, 101, 97, 100, 121, 32, 99, 111, 110, 110, 101, 99, 116, 101, 100, 32, 116, 111, 32, 66, 76, 68, 83>>
\* "Not connected to BLDS"
MsgNotConnected == <<78, 111, 116, 32, 99, 111, 110, 110, 101, 99, 116, 101, 100, 32, 116, 111, 32, 66, 76, 68, 83>>
\* m_socket->errorString(): "Connection refused", "Host not found", "The
\* remote host closed the connection", "Trying to connect while connection
\* is in progress"
Err_refused == <<67, 111, 110, 110, 101, 99, 116, 105, 111, 110, 32, 114, 101, 102, 117, 115, 101, 100>>
Err_host_not_found == <<72, 111, 115, 116, 32, 110, 111, 116, 32, 102, 111, 117, 110, 100>>
Err_remote_closed == <<84, 104, 101, 32, 114, 101, 109, 111, 116, 101, 32, 104, 111, 115, 116, 32, 99, 108, 111, 115, 101, 100, 32, 116, 104, 101, 32, 99, 111, 110, 110, 101, 99, 116, 105, 111, 110>>
Err_in_progress == <<84, 114, 121, 105, 110, 103, 32, 116, 111, 32, 99, 111, 110, 110, 101, 99, 116, 32, 119, 104, 105, 108, 101, 32, 99, 111, 110, 110, 101, 99, 116, 105, 111, 110, 32, 105, 115, 32, 105, 110, 32, 112, 114, 111, 103, 114, 101, 115, 115>>

\* emit connected(made), emit disconnected()
ConnectedEv(made) == Ev("connected", <<>>, made, "bool", <<>>)
DisconnectedEv == Ev("disconnected", <<>>, FALSE, "none", <<>>)

\* m_socket emits error() with errorString() = msg to the slots hs: the
\* slot connect() adds ("attempt") emits connected(false), the slot the
\* connected() lambda adds ("established") emits error(errorString())
ErrorSlot(h, msg) ==
    IF h = "attempt" THEN ConnectedEv(FALSE) ELSE ErrorEv(FromUtf8(msg))
ErrorSlots(hs, msg) == [i \in 1..Len(hs) |-> ErrorSlot(hs[i], msg)]

\* m_socket emits disconnected() to n connections to BldsClient::disconnected
DisconnectedSlots(n) == [i \in 1..n |-> DisconnectedEv]

\* m_socket emits connected() to n lambdas of connect(): the first to run
\* disconnects them all and emits connected(true)
ConnectedSlots(n) == IF n > 0 THEN <<ConnectedEv(TRUE)>> ELSE <<>>

\* connectToHost() keeping what the socket had buffered
BufferKept(b) == b

\* what m_socket->connectToHost() leaves in the read buffer b
BufferAtConnect(b) == <<>>

\* m_socket->connectToHost(m_hostname, m_port), hs being the error() slots:
\* an unconnected socket empties its buffers and starts the attempt; any
\* other socket reports an operation error and changes nothing
connectToHost(hs) ==
    IF state = "Unconnected"
    THEN /\ state' = "Connecting"
         /\ pendingClose' = FALSE
         /\ sock' = BufferAtConnect(sock)
         /\ discarded' = discarded + Len(sock) - Len(BufferAtConnect(sock))
         /\ out' = <<>> /\ net' = <<>> /\ served' = <<>> /\ delivered' = 0
         /\ UNCHANGED events
    ELSE /\ events' = events \o ErrorSlots(hs, Err_in_progress)
         /\ UNCHANGED <<state, pendingClose, sock, out, net, served, delivered,
                        discarded>>

\* connect()
Connect ==
    /\ calls < MaxCalls
    /\ calls' = calls + 1
    /\ IF state = "Connected"
       THEN /\ events' = Append(events, ErrorEv(FromUtf8(MsgAlreadyConnected)))
            /\ UNCHANGED <<state, pendingClose, onConnected, onError,
                           sock, out, net, served, delivered, discarded>>
       ELSE /\ onConnected' = onConnected + 1
            /\ onError' = Append(onError, "attempt")
            /\ connectToHost(Append(onError, "attempt"))
    /\ UNCHANGED <<onDisconnected, log, requests, store, status, sourceActive, http>>

\* the state m_socket->disconnectFromHost() leaves a socket in state st in:
\* a connected socket closes at once when nothing is left to write
StateAtDisconnect(st, flushed) ==
    IF st = "Connected" THEN (IF flushed THEN "Unconnected" ELSE "Closing")
    ELSE st

\* disconnect() returning after the error when the socket is not connected
DisconnectReturnsEarly(flushed) ==
    /\ calls < MaxCalls
    /\ calls' = calls + 1
    /\ onError' = IF state = "Connected" THEN <<>> ELSE onError
    /\ onDisconnected' = IF state = "Connected" THEN 1 ELSE onDisconnected
    /\ pendingClose' = pendingClose
    /\ state' = StateAtDisconnect(state, flushed)
    /\ events' = events
          \o (IF state # "Connected"
              THEN <<ErrorEv(FromUtf8(MsgNotConnected))>> ELSE <<>>)
          \o (IF state = "Connected" /\ flushed THEN DisconnectedSlots(1) ELSE <<>>)
    /\ net' = IF state = "Connected" THEN <<>> ELSE net
    /\ UNCHANGED <<onConnected, discarded, sock, out, log, served, delivered,
                   requests, store, status, sourceActive, http>>

\* disconnect()
Disconnect(flushed) ==
    /\ calls < MaxCalls
    /\ calls' = calls + 1
    /\ onError' = <<>>
    /\ onDisconnected' = 1
    /\ pendingClose' = IF state = "Connecting" THEN TRUE ELSE pendingClose
    /\ state' = StateAtDisconnect(state, flushed)
    /\ events' = events
          \o (IF state # "Connected"
              THEN <<ErrorEv(FromUtf8(MsgNotConnected))>> ELSE <<>>)
          \o (IF state = "Connected" /\ flushed THEN DisconnectedSlots(1) ELSE <<>>)
    /\ net' = IF state = "Connected" THEN <<>> ELSE net
    /\ UNCHANGED <<onConnected, discarded, sock, out, log, served, delivered,
                   requests, store, status, sourceActive, http>>

\* the transport reaches the server: m_socket emits connected(), then
\* closes if disconnectFromHost() was called during the attempt
Established(flushed) ==
    /\ state = "Connecting"
    /\ state' = IF pendingClose THEN StateAtDisconnect("Connected", flushed)
                ELSE "Connected"
    /\ pendingClose' = FALSE
    /\ onConnected' = 0
    /\ onError' = IF onConnected > 0 THEN <<"established">> ELSE onError
    /\ events' = events
          \o ConnectedSlots(onConnected)
          \o (IF pendingClose /\ flushed
              THEN DisconnectedSlots(onDisconnected) ELSE <<>>)
    /\ UNCHANGED <<onDisconnected, calls, discarded, sock, net, out, log, served,
                   delivered, requests, store, status, sourceActive, http>>

\* the attempt fails (connection refused, host not found): m_socket emits
\* error()
Failed(msg) ==
    /\ state = "Connecting"
    /\ state' = "Unconnected"
    /\ events' = events \o ErrorSlots(onError, msg)
    /\ UNCHANGED <<pendingClose, onConnected, onError, onDisconnected, calls,
                   discarded, sock, net, out, log, served, delivered, requests,
                   store, status, sourceActive, http>>

\* the server closes or resets the connection: m_socket emits error(), then
\* disconnected()
Reset ==
    /\ state = "Connected"
    /\ state' = "Unconnected"
    /\ events' = events \o ErrorSlots(onError, Err_remote_closed)
                        \o DisconnectedSlots(onDisconnected)
    /\ net' = <<>>
    /\ UNCHANGED <<pendingClose, onConnected, onError, onDisconnected, calls,
                   discarded, sock, out, log, served, delivered, requests, store,
                   status, sourceActive, http>>

\* the last bytes are written and the closing socket closes: m_socket emits
\* disconnected()
Closed ==
    /\ state = "Closing"
    /\ state' = "Unconnected"
    /\ events' = events \o DisconnectedSlots(onDisconnected)
    /\ UNCHANGED <<pendingClose, onConnected, onError, onDisconnected, calls,
                   discarded, sock, net, out, log, served, delivered, requests,
                   store, status, sourceActive, http>>

\* the server writes a frame, the first of the connection
Push(f) ==
    /\ state = "Connected"
    /\ served = <<>>
    /\ net' = net \o Encode(f)
    /\ served' = Append(served, f)
    /\ UNCHANGED <<sock, out, events, log, delivered, requests, store,
                   conn, status, sourceActive, http>>

\* bytes arrive on the connection: a first chunk of any size, then the rest
Arrive(k, ub) ==
    /\ state = "Connected"
    /\ DeliverFirstOrRest(k, ub)

\* a client as constructed: nothing connected but readyRead
Constructed ==
    /\ state = "Unconnected" /\ pendingClose = FALSE
    /\ onConnected = 0 /\ onError = <<>> /\ onDisconnected = 0
    /\ calls = 0 /\ discarded = 0 /\ status = "Ok" /\ sourceActive = FALSE
    /\ replies = <<>> /\ m_serverReply = 0 /\ m_sourceReply = 0
    /\ sock = <<>> /\ net = <<>> /\ out = <<>>
    /\ events = <<>> /\ log = <<>> /\ served = <<>>
    /\ delivered = 0 /\ requests = <<>>
    /\ store = InitStore

InitConn == Constructed

NextConn ==
    \/ Connect
    \/ \E flushed \in BOOLEAN : Disconnect(flushed)
    \/ \E flushed \in BOOLEAN : Established(flushed)
    \/ \E msg \in {Err_refused, Err_host_not_found} : Failed(msg)
    \/ Reset
    \/ Closed
    \/ Push(RawFrame(Tag_error, <<110>>, "ok"))
    \/ \E k \in 1..Len(net), ub \in BOOLEAN : Arrive(k, ub)

SpecConn == InitConn /\ [][NextConn]_vars

---------------------------------------------------------------------------
(* The command methods, on a client in any connection state. *)

\* sizeof(float)
SizeofFloat == 4

\* "create-source\n"
Cmd_create_source == <<99, 114, 101, 97, 116, 101, 45, 115, 111, 117, 114, 99, 101, 10>>
\* "start-recording\n"
Cmd_start_recording == <<115, 116, 97, 114, 116, 45, 114, 101, 99, 111, 114, 100, 105, 110, 103, 10>>
\* "stop-recording\n"
Cmd_stop_recording == <<115, 116, 111, 112, 45, 114, 101, 99, 111, 114, 100, 105, 110, 103, 10>>
\* "get-all-data\n"
Cmd_get_all_data == <<103, 101, 116, 45, 97, 108, 108, 45, 100, 97, 116, 97, 10>>
\* "get-data\n"
Cmd_get_data == <<103, 101, 116, 45, 100, 97, 116, 97, 10>>
\* "get-source\n"
Cmd_get_source == <<103, 101, 116, 45, 115, 111, 117, 114, 99, 101, 10>>
\* "set-source\n"
Cmd_set_source == <<115, 101, 116, 45, 115, 111, 117, 114, 99, 101, 10>>

\* createSource(type, location)
CreateSource(type, location) ==
    Issued(StreamByteArray(Cmd_create_source \o ToUtf8(type) \o <<NL>>
                               \o ToUtf8(location)),
           Request("createSource", type))

\* startRecording(), stopRecording()
StartRecording ==
    Issued(StreamByteArray(Cmd_start_recording), Request("startRecording", <<>>))
StopRecording ==
    Issued(StreamByteArray(Cmd_stop_recording), Request("stopRecording", <<>>))

\* requestAllData(request): the size through the stream, the tag on the
\* socket, the flag through the stream
RequestAllData(request) ==
    Called(<<StreamOp(U32ToBytes(U32(Len(Cmd_get_all_data) + 1))),
             SocketOp(Cmd_get_all_data),
             StreamOp(<<Flag(request)>>)>>,
           Request("requestAllData", <<>>))

\* getData(start, stop), start and stop being the floats' bit patterns
GetData(start, stop) ==
    Called(<<StreamOp(U32ToBytes(U32(Len(Cmd_get_data) + 2 * SizeofFloat))),
             SocketOp(Cmd_get_data),
             StreamOp(U32ToBytes(start)),
             StreamOp(U32ToBytes(stop))>>,
           Request("getData", <<>>))

\* getSource(param)
GetSource(p) ==
    Issued(StreamByteArray(Cmd_get_source \o ToUtf8(FromUtf8(p)) \o <<NL>>),
           Request("getSource", FromUtf8(p)))

\* setSource(param, data), enc being the bytes datasource::serialize(param,
\* data) returns
SetSource(p, enc) ==
    Issued(StreamByteArray(Cmd_set_source \o ToUtf8(FromUtf8(p)) \o <<NL>> \o enc),
           Request("setSource", FromUtf8(p)))

\* "file", "x.h5": a source type and a location
T_file == <<102, 105, 108, 101>>
Loc == <<120, 46, 104, 53>>

NextWrite ==
    \/ Connect
    \/ \E flushed \in BOOLEAN : Established(flushed)
    \/ CreateSource(FromUtf8(T_file), FromUtf8(Loc))
    \/ DeleteSource
    \/ StartRecording
    \/ StopRecording
    \/ \E request \in BOOLEAN : RequestAllData(request)
    \/ \E start \in FloatValues : GetData(start, <<16256, 0>>)
    \/ Get(P_read_interval)
    \/ GetSource(P_gain)
    \/ Set(P_read_interval, Data("uint", <<1, 2>>))
    \/ SetSource(P_gain, <<0, 0, 128, 63>>)
    \/ Push(SimpleFrame(Tag_source_deleted, TRUE, <<>>))
    \/ \E k \in 1..Len(net), ub \in BOOLEAN : Arrive(k, ub)

SpecWrite == InitConn /\ [][NextWrite]_vars

---------------------------------------------------------------------------
(* The HTTP status queries. replies holds the QNetworkReply objects in the *)
(* order m_manager->get() returned them; m_serverReply and m_sourceReply   *)
(* are indices into it, 0 before the first request. A body is its text and *)
(* what QJsonDocument::fromJson makes of it.                                *)

\* number of status requests the caller issues
MaxReplies == 3

\* m_manager->get(request) for the request of the given kind
Reply(kind) == [kind |-> kind, finished |-> FALSE, code |-> 0, body |-> <<>>]

\* whether a request of the kind is outstanding
Outstanding(kind) ==
    \E i \in 1..Len(replies) : replies[i].kind = kind /\ ~replies[i].finished

\* bodies a server sends: two JSON objects, text that is no JSON
Bodies == {<<"object", "a">>, <<"object", "b">>, <<"invalid", "d">>}

\* QJsonDocument::fromJson(body).object(): the object the body holds, the
\* empty object when it holds none
JsonObject(body) ==
    IF body[1] = "object" THEN <<body[2]>> ELSE <<>>

\* emit serverStatus(json), emit sourceStatus(exists, json)
ServerStatusEv(json) == Ev("serverStatus", <<>>, FALSE, "json", json)
SourceStatusEv(exists, json) == Ev("sourceStatus", <<>>, exists, "json", json)

\* requestServerStatus(), requestSourceStatus(). A caller issues a request
\* of a kind only while none of that kind is outstanding.
Requested(kind) ==
    /\ Len(replies) < MaxReplies
    /\ ~Outstanding(kind)
    /\ replies' = Append(replies, Reply(kind))
RequestServerStatus ==
    /\ Requested("server")
    /\ m_serverReply' = Len(replies) + 1
    /\ UNCHANGED <<m_sourceReply, sock, net, out, events, log, served, delivered,
                   requests, store, conn, status, sourceActive>>
RequestSourceStatus ==
    /\ Requested("source")
    /\ m_sourceReply' = Len(replies) + 1
    /\ UNCHANGED <<m_serverReply, sock, net, out, events, log, served, delivered,
                   requests, store, conn, status, sourceActive>>

\* handleServerStatusReply(), r being *m_serverReply
handleServerStatusReply(r) == ServerStatusEv(JsonObject(r.body))

\* the source-status slot reading any 2xx code as existence
SourceStatusAnySuccess(r) ==
    SourceStatusEv(r.code \in 200..299, JsonObject(r.body))

\* handleSourceStatusReply(), r being *m_sourceReply
handleSourceStatusReply(r) ==
    SourceStatusEv(r.code = 200, JsonObject(r.body))

\* the slot connected to the finished() signal of a reply of the given
\* kind, rs being the replies once the reply has finished
FinishedSlot(kind, rs) ==
    IF kind = "server" THEN handleServerStatusReply(rs[m_serverReply])
    ELSE handleSourceStatusReply(rs[m_sourceReply])

\* reply i finishes with the given status code and body and emits finished()
Finished(i, code, body) ==
    /\ ~replies[i].finished
    /\ replies' = [replies EXCEPT ![i] = [@ EXCEPT !.finished = TRUE,
                                                   !.code = code,
                                                   !.body = body]]
    /\ events' = Append(events, FinishedSlot(replies[i].kind, replies'))
    /\ UNCHANGED <<m_serverReply, m_sourceReply, sock, net, out, log, served,
                   delivered, requests, store, conn, status, sourceActive>>

\* status codes a reply finishes with
Codes == {200, 204, 404}

NextStatus ==
    \/ RequestServerStatus
    \/ RequestSourceStatus
    \/ \E i \in 1..Len(replies), code \in Codes, body \in Bodies :
          Finished(i, code, body)

SpecStatus == InitConn /\ [][NextStatus]_vars

---------------------------------------------------------------------------
(* Properties. *)

Entries == 1..Len(log)
Served == 1..Len(served)

\* log entry e is the handleMessage call for served frame j, made with the
\* whole frame buffered
Whole(e, j) ==
    /\ e.start = FrameStart(served, j)
    /\ e.avail >= Len(served[j].body)

IsSuffix(p, t) ==
    Len(p) <= Len(t) /\ SubSeq(t, Len(t) - Len(p) + 1, Len(t)) = p

\* the signals emitted when each frame of fs arrives whole, in one readyRead
\* per frame, b being what the socket buffers before the first
RECURSIVE WholeRun(_, _, _)
RECURSIVE WholeNext(_, _, _)
WholeNext(fs, r, ub) == r.events \o WholeRun(Tail(fs), r.sock, ub)
WholeRun(fs, b, ub) ==
    IF fs = <<>> THEN <<>>
    ELSE WholeNext(fs, handleReadyRead(b \o Encode(fs[1]), ub, 0), ub)

\* C1: handleMessage(size) is called only when at least size bytes are
\* buffered behind the 4-byte prefix: no partial frame is dispatched.
C1_NoPartialFrame ==
    \A i \in Entries : ~U32Less(U32(log[i].avail), log[i].size)

\* C2: once every byte of a stream of valid frames has arrived, whatever the
\* chunks were, the signals emitted are those emitted when each frame
\* arrives whole in one readyRead.
C2_ChunkingIndependent ==
    (net = <<>> /\ \A j \in Served : served[j].shape = "ok")
        => \E ub \in BOOLEAN : events = WholeRun(served, <<>>, ub)

\* C3: for a well-formed frame of any response kind, with success true or
\* false, handleMessage consumes exactly the bytes the prefix declares.
C3_ExactConsumption ==
    \A i \in Entries, j \in Served :
        (Whole(log[i], j) /\ served[j].shape = "ok")
            => log[i].consumed = Len(served[j].body)

\* C4: a frame whose declared length is one more or one less than what its
\* decode steps consume is reported through the generic error signal.
C4_SkewIsReported ==
    \A i \in Entries, j \in Served :
        (Whole(log[i], j) /\ served[j].shape \in {"plus1", "minus1"})
            => \E n \in 1..Len(log[i].events) : log[i].events[n].kind = "error"

\* the signal that answers each request
KindOfRequest(r) ==
    IF r.cmd = "get" THEN "getResponse"
    ELSE IF r.cmd = "set" THEN "setResponse"
    ELSE "sourceDeleted"

\* C5: when a server that answers in order has answered every request and
\* every byte has arrived, in whatever chunks, the signals emitted are the
\* responses to the requests in the order issued, each with its own
\* parameter name.
C5_ResponsesInRequestOrder ==
    (out = <<>> /\ net = <<>>)
        => /\ Len(events) = Len(requests)
           /\ \A i \in 1..Len(requests) :
                 /\ events[i].kind = KindOfRequest(requests[i])
                 /\ events[i].param = requests[i].param

\* the signal the claim assigns to each type tag
KindOfTag(t) ==
    IF t = Tag_source_created THEN "sourceCreated"
    ELSE IF t = Tag_source_deleted THEN "sourceDeleted"
    ELSE IF t = Tag_recording_started THEN "recordingStarted"
    ELSE IF t = Tag_recording_stopped THEN "recordingStopped"
    ELSE IF t = Tag_get_all_data THEN "requestAllDataResponse"
    ELSE IF t = Tag_set THEN "setResponse"
    ELSE IF t = Tag_set_source THEN "setSourceResponse"
    ELSE IF t = Tag_get THEN "getResponse"
    ELSE IF t = Tag_get_source THEN "getSourceResponse"
    ELSE IF t = Tag_data THEN "data"
    ELSE "error"

KnownTags == {Tag_source_created, Tag_source_deleted, Tag_recording_started,
              Tag_recording_stopped, Tag_get_all_data, Tag_set, Tag_set_source,
              Tag_get, Tag_get_source, Tag_data, Tag_error}

C7_FailedGetIsText ==
    \A i \in Entries, j \in Served :
        (Whole(log[i], j) /\ served[j].shape = "ok" /\ served[j].tag = Tag_get
                /\ ~served[j].success)
            => /\ log[i].events[1].vtype = "QString"
               /\ log[i].events[1].value = FromUtf8(served[j].payload)

\* C8: a get response for a name outside the known set is reported with that
\* name, success = false and a text value.
C8_UnknownNameFails ==
    \A i \in Entries, j \in Served :
        (Whole(log[i], j) /\ served[j].tag = Tag_get
                /\ served[j].param \notin KnownParams)
            => /\ log[i].events[1].kind = "getResponse"
               /\ log[i].events[1].param = FromUtf8(served[j].param)
               /\ log[i].events[1].success = FALSE
               /\ log[i].events[1].vtype = "QString"

\* the variant and the width in bytes the claim assigns to each known name
VariantOfName(q) ==
    IF q \in {FromUtf8(p) : p \in TextParams} THEN "QString"
    ELSE IF q \in {FromUtf8(p) : p \in UIntParams} THEN "uint"
    ELSE IF q \in {FromUtf8(p) : p \in FloatParams} THEN "float"
    ELSE "bool"
WidthOfName(p) == IF p \in BoolParams THEN 1 ELSE 4
\* the bytes of a get frame before its value: tag line, flag, name line
GetHeaderLen(f) == Len(f.tag) + 1 + 1 + Len(f.param) + 1

Echoed(p, d) == Ev("getResponse", FromUtf8(p), TRUE, d.vtype, d.value)

---------------------------------------------------------------------------
(* Properties of the connection. *)

\* the signals a step adds to those emitted before it
Emitted == SubSeq(events', Len(events) + 1, Len(events'))

\* the slots connected to m_socket's signals
Slots == <<onConnected, onError, onDisconnected>>

\* C11: connect() while the socket is connected or connecting emits the
\* generic error signal and nothing else, and changes neither the state nor
\* the slots connected to the socket.
ConnectWhileBusy ==
    (Connect /\ state \in {"Connected", "Connecting"})
        => /\ Len(Emitted) = 1 /\ Emitted[1].kind = "error"
           /\ UNCHANGED <<state, Slots>>
C11_ConnectWhileBusyFails == [][ConnectWhileBusy]_vars

\* C12: disconnect() while the socket is not connected emits the generic
\* error signal and no other, and still calls disconnectFromHost(): an
\* attempt in progress is marked to close as soon as it connects.
DisconnectWhileNotConnected ==
    ((\E flushed \in BOOLEAN : Disconnect(flushed)) /\ state # "Connected")
        => /\ Emitted = <<ErrorEv(FromUtf8(MsgNotConnected))>>
           /\ state' = state
           /\ state = "Connecting" => pendingClose'
C12_DisconnectWhileNotConnected == [][DisconnectWhileNotConnected]_vars

\* C12 witness: disconnect() was called during an attempt: the error was
\* emitted and the attempt is marked to close
C12_Witness ==
    /\ state = "Connecting" /\ pendingClose
    /\ events = <<ErrorEv(FromUtf8(MsgNotConnected))>>

\* the made flags of the connected signals among evs
RECURSIVE MadeFlags(_)
MadeFlags(evs) ==
    IF evs = <<>> THEN <<>>
    ELSE (IF evs[1].kind = "connected" THEN <<evs[1].success>> ELSE <<>>)
             \o MadeFlags(Tail(evs))

\* the connection state the caller sees: a socket still writing its last
\* bytes before it closes counts as connected
Seen(st) == IF st = "Closing" THEN "Connected" ELSE st

\* C13: the outcome of every connection attempt that no disconnect()
\* interrupted is reported by exactly one connected(made) signal, made
\* telling whether the socket connected; the socket closing after
\* disconnect() emits disconnected; and the state moves only Unconnected ->
\* Connecting -> Connected -> Unconnected, or Connecting -> Unconnected when
\* the attempt fails.
Lifecycle ==
    /\ ((\E msg \in {Err_refused, Err_host_not_found} : Failed(msg))
            /\ ~pendingClose)
          => MadeFlags(Emitted) = <<FALSE>>
    /\ ((\E flushed \in BOOLEAN : Established(flushed)) /\ ~pendingClose)
          => MadeFlags(Emitted) = <<TRUE>>
    /\ (state = "Connected" /\ state' = "Unconnected" /\ calls' # calls)
          => Emitted = <<DisconnectedEv>>
    /\ Seen(state') # Seen(state)
          => <<Seen(state), Seen(state')>> \in
                {<<"Unconnected", "Connecting">>, <<"Connecting", "Connected">>,
                 <<"Connected", "Unconnected">>, <<"Connecting", "Unconnected">>}
C13_Lifecycle == [][Lifecycle]_vars

\* a signal that tells the end of a connection
ConnectionEnded(e) ==
    e.kind = "disconnected" \/ (e.kind = "connected" /\ ~e.success)

\* C14: whenever an established connection ends, by disconnect() or by the
\* transport, a disconnected or connected(false) signal is emitted.
EndIsNotified ==
    (state \in {"Connected", "Closing"} /\ state' = "Unconnected")
        => \E i \in 1..Len(Emitted) : ConnectionEnded(Emitted[i])
C14_EndIsNotified == [][EndIsNotified]_vars

ErrorReported(msg) ==
    /\ \E i \in 1..Len(Emitted) : Emitted[i] = ErrorEv(FromUtf8(msg))
    /\ state' = "Unconnected"
TransportErrorIsReported ==
    /\ \A msg \in {Err_refused, Err_host_not_found} :
          Failed(msg) => ErrorReported(msg)
    /\ Reset => ErrorReported(Err_remote_closed)
C17_TransportErrorIsReported == [][TransportErrorIsReported]_vars

---------------------------------------------------------------------------
(* Properties of the command methods. *)

\* the command a step calls, and the bytes the step hands to the transport
CommandCalled == Len(requests') = Len(requests) + 1
Command == requests'[Len(requests')]
Written == SubSeq(out', Len(out) + 1, Len(out'))

\* C16: getSource() and setSource() called while no data source is active
\* emit the generic error signal and write nothing to the transport.
SourceMisuseIsNoOp ==
    (/\ CommandCalled
     /\ Command.cmd \in {"getSource", "setSource"}
     /\ state = "Connected"
     /\ ~sourceActive)
        => /\ Written = <<>>
           /\ Len(Emitted) = 1
           /\ Emitted[1].kind = "error"
C16_SourceMisuseIsNoOp == [][SourceMisuseIsNoOp]_vars

\* the tag line each command's frame begins with
TagLine(cmd) ==
    CASE cmd = "createSource" -> Cmd_create_source
      [] cmd = "deleteSource" -> Cmd_delete_source
      [] cmd = "startRecording" -> Cmd_start_recording
      [] cmd = "stopRecording" -> Cmd_stop_recording
      [] cmd = "requestAllData" -> Cmd_get_all_data
      [] cmd = "getData" -> Cmd_get_data
      [] cmd = "get" -> Cmd_get
      [] cmd = "getSource" -> Cmd_get_source
      [] cmd = "set" -> Cmd_set
      [] cmd = "setSource" -> Cmd_set_source

\* the fields that follow the tag line, as far as the command fixes them:
\* the parameter's line, one flag byte, two 4-byte floats
FieldsFit(r, fields) ==
    CASE r.cmd \in {"get", "getSource"} -> fields = ToUtf8(r.param) \o <<NL>>
      [] r.cmd \in {"set", "setSource"} ->
            /\ Len(fields) > Len(ToUtf8(r.param))
            /\ SubSeq(fields, 1, Len(ToUtf8(r.param)) + 1) = ToUtf8(r.param) \o <<NL>>
      [] r.cmd = "requestAllData" -> fields \in {<<0>>, <<1>>}
      [] r.cmd = "getData" -> Len(fields) = 8
      [] r.cmd = "createSource" ->
            /\ Len(fields) > Len(ToUtf8(r.param))
            /\ SubSeq(fields, 1, Len(ToUtf8(r.param)) + 1) = ToUtf8(r.param) \o <<NL>>
      [] OTHER -> fields = <<>>

\* w is one frame of the command r: the prefix holds the number of bytes
\* after it, and those are the tag line and then the fields
OneFrame(w, r) ==
    /\ Len(w) >= 4 + Len(TagLine(r.cmd))
    /\ U32FromBytes(SubSeq(w, 1, 4)) = U32(Len(w) - 4)
    /\ SubSeq(w, 5, 4 + Len(TagLine(r.cmd))) = TagLine(r.cmd)
    /\ FieldsFit(r, SubSeq(w, 5 + Len(TagLine(r.cmd)), Len(w)))

\* C18: every command called on a connected client hands the transport
\* exactly one frame: the 4-byte prefix holding the length of the body, then
\* the tag line, then the fields in order.
OneFramePerCommand ==
    (CommandCalled /\ state = "Connected") => OneFrame(Written, Command)
C18_OneFramePerCommand == [][OneFramePerCommand]_vars

---------------------------------------------------------------------------
(* Properties of the status queries. *)

\* the replies that finish in a step
Finishing == {i \in 1..Len(replies) : ~replies[i].finished /\ replies'[i].finished}

\* the event a finished reply is to produce
StatusOf(r) ==
    IF r.kind = "server"
    THEN [kind |-> "serverStatus", exists |-> FALSE, json |-> JsonObject(r.body)]
    ELSE [kind |-> "sourceStatus", exists |-> (r.code = 200),
          json |-> JsonObject(r.body)]
StatusIn(e) == [kind |-> e.kind, exists |-> e.success, json |-> e.value]

\* C19: with a server-status and a source-status request outstanding
\* together, in whichever order they finish, each finishing reply emits
\* exactly one event, of its own kind and built from its own body, a
\* sourceStatus carrying exists = (its HTTP status code is 200); and no
\* status event is emitted but by a finishing reply.
EachReplyItsOwnEvent ==
    /\ \A i \in Finishing :
          /\ Len(Emitted) = 1
          /\ StatusIn(Emitted[1]) = StatusOf(replies'[i])
    /\ Finishing = {} => Emitted = <<>>
C19_EachReplyItsOwnEvent == [][EachReplyItsOwnEvent]_vars

\* both kinds were outstanding together, the source reply finished first
\* with a code other than 200 and the server reply after it, and a second
\* source reply finished with 200
C19_Witness ==
    /\ Len(replies) = 3 /\ Len(events) = 3
    /\ replies[1].kind = "server" /\ replies[2].kind = "source"
    /\ replies[3].kind = "source"
    /\ events[1] = SourceStatusEv(FALSE, <<"a">>)
    /\ replies[2].code = 204
    /\ events[2] = ServerStatusEv(<<"b">>)
    /\ events[3] = SourceStatusEv(TRUE, <<>>)
    /\ replies[3].code = 200

---------------------------------------------------------------------------
(* Properties of the read loop. *)

\* C20: handleReadyRead() returns on every buffer: each pass of its loop
\* that does not return takes the 4-byte prefix and what handleMessage reads
\* behind it, never more than is buffered, so consecutive passes start at
\* least 4 bytes apart and the passes made are at most a quarter of the
\* bytes taken from the socket.
C20_EachPassConsumesPrefix ==
    /\ \A i \in Entries : log[i].consumed >= 0 /\ log[i].consumed <= log[i].avail
    /\ \A i \in Entries : i > 1 => log[i].start >= log[i - 1].start + 4
    /\ 4 * Len(log) <= delivered - Len(sock)

\* the loop made two passes over malformed input: a frame of an unknown type
\* and then a pass that read nothing behind its prefix
C20_Witness ==
    /\ Len(log) = 2
    /\ log[1].line = Tag_bogus \o <<NL>>
    /\ log[2].start = log[1].start + 4 + log[1].consumed
    /\ log[2].consumed = 0

\* a complete frame is buffered in b: the prefix and the bytes it declares
CompleteFrame(b) ==
    Len(b) >= 4 /\ ~U32Less(U32(Len(b) - 4), PeekSize(b))

\* the pass log[i] took exactly the served frame j while the frame after
\* it was buffered complete as well
NextFrameBuffered(i, j) ==
    /\ j < Len(served)
    /\ log[i].start = FrameStart(served, j)
    /\ log[i].consumed = Len(served[j].body)
    /\ log[i].avail >= Len(served[j].body) + 4 + Len(served[j + 1].body)

---------------------------------------------------------------------------
(* Properties of error recovery. *)

\* the pass log[i] is followed by one that has the served frame j whole
FollowedWhole(i, j) ==
    /\ i < Len(log)
    /\ j <= Len(served)
    /\ Whole(log[i + 1], j)

\* the normal response event of the served frame f
NormalEvent(e, f) ==
    /\ e.kind = KindOfTag(f.tag)
    /\ f.tag # Tag_error => e.success = f.success
    /\ f.tag = Tag_error => e.value = FromUtf8(f.payload)

---------------------------------------------------------------------------
(* Properties of repeated connection attempts. *)

\* a connection attempt ends in the step: the socket leaves Connecting
AttemptEnds == state = "Connecting" /\ state' # "Connecting"

\* C23: over any sequence of connect(), disconnect(), connection successes
\* and failures, the end of a connection attempt emits at most one
\* connected(made) signal: slots an earlier attempt left connected never
\* make the outcome be reported twice.
OutcomeOnce == AttemptEnds => Len(MadeFlags(Emitted)) <= 1
C23_OutcomeOnce == [][OutcomeOnce]_vars

---------------------------------------------------------------------------
(* Properties of the running size. *)

\* the type line handleMessage read is longer than the length it was given
ShortDeclared(e) == U32Less(e.size, U32(Len(e.line)))

\* C24: the running quint32 size never wraps around: size -= type.size() in
\* handleMessage leaves no more than the declared length, and a pass whose
\* declared length is smaller than the lines it reads takes no byte behind
\* the declared end of its frame.
C24_SizeNeverWraps ==
    \A i \in Entries :
        /\ ~U32Less(log[i].size, U32Sub(log[i].size, Len(log[i].line)))
        /\ ShortDeclared(log[i]) => ~U32Less(log[i].size, U32(log[i].consumed))

====
